---- MODULE Spec2Model ----
(***************************************************************************)
(* A model of plarx/scheduler.py: the TaskGenerator bookkeeping, the       *)
(* per-datatype StoredData and the Scheduler's main loop (drain of done    *)
(* tasks, admission of a new task, submission or yield, waiting).          *)
(*                                                                         *)
(* Python errors are modelled as they are raised: a read of an attribute   *)
(* the class does not define is an AttributeError, an index into an empty  *)
(* tuple an IndexError.  An exception that leaves main_loop ends the       *)
(* driver: pc = "error" and error names the exception.                     *)
(***************************************************************************)
EXTENDS Integers, Sequences, FiniteSets, TLC

\* ------------------------------------------------------------------ bounds
\* Largest chunk number a generator may reach in the model.
MaxChunk == 3
\* Scheduler(max_workers=...): constructor argument (default 5), kept small.
max_workers == 2
\* Depth at which the recursive restart of _get_new_task overflows the stack.
RecursionLimit == 2
\* Largest number of external inputs a source has before it reports
\* external_inputs_exhausted().
MaxExternal == 1

\* --------------------------------------------------------------- pipeline
\* The generators a pipeline is built from: a source S producing "a", a
\* transform T consuming "a" and producing "b", a sink K consuming "b" and
\* producing nothing, and a second source R producing "c".
Generators == {"S", "T", "K", "R"}

\* TaskGenerator.is_source
is_source(tg) == tg \in {"S", "R"}

\* TaskGenerator.dtypes: the produced data types, a tuple.
dtypes(tg) == CASE tg = "S" -> <<"a">>
                [] tg = "T" -> <<"b">>
                [] tg = "R" -> <<"c">>
                [] OTHER    -> << >>

\* TaskGenerator.wants_input at construction: [(dtype, chunk_i), ...].
wants_input(tg) == CASE tg = "T" -> << <<"a", 0>> >>
                     [] tg = "K" -> << <<"b", 0>> >>
                     [] OTHER    -> << >>

\* TaskGenerator.priority: 0 = saver/target, 1 = source, 2 = other.
priority(tg) == CASE tg = "K" -> 0
                  [] tg = "T" -> 2
                  [] OTHER    -> 1

\* TaskGenerator.depth: dependency hops to the final target.
depth(tg) == CASE tg = "K" -> 0
               [] tg = "T" -> 1
               [] tg = "S" -> 2
               [] OTHER    -> 3

Range(s) == {s[i] : i \in 1..Len(s)}

\* The sort key of Scheduler.__init__: (priority, depth), compared as tuples.
KeyLess(x, y) ==
    \/ priority(x) < priority(y)
    \/ priority(x) = priority(y) /\ depth(x) < depth(y)

RECURSIVE SortGenerators(_)
\* task_generators.sort(key=lambda _tg: (_tg.priority, _tg.depth))
SortGenerators(gs) ==
    IF gs = {} THEN << >>
    ELSE LET first == CHOOSE x \in gs : \A y \in gs \ {x} : KeyLess(x, y)
         IN <<first>> \o SortGenerators(gs \ {first})

\* who_wants of Scheduler.__init__: for every tg, for every dt in tg.dtypes,
\* who_wants[dt].append(tg).
who_wants(gs, dt) == {tg \in gs : dt \in Range(dtypes(tg))}

\* StoredData.__init__ for every key of who_wants.
NewStoredData(gs) ==
    [dt \in UNION {Range(dtypes(tg)) : tg \in gs} |->
        [stored            |-> {},
         last_contiguous   |-> -1,
         seen_by_consumers |-> [tg \in who_wants(gs, dt) |-> -1]]]

\* TaskGenerator.__init__: the exception it raises, or "none".
TaskGeneratorInit(par, delivery) ==
    IF delivery # "direct" /\ ~par THEN "RuntimeError" ELSE "none"

VARIABLES
    task_generators,   \* Scheduler.task_generators, sorted
    parallel,          \* TaskGenerator.parallel, per generator
    input_delivery,    \* TaskGenerator.input_delivery: "direct" or "separate"
    has_final_task,    \* TaskGenerator.has_final_task, per generator
    submit_to,         \* TaskGenerator.submit_to, per generator
    external_chunks,   \* number of external inputs each source has
    chunk_i,           \* TaskGenerator.chunk_i
    need_result_chunk, \* TaskGenerator.need_result_chunk
    has_finished,      \* TaskGenerator.has_finished
    is_finished,       \* the attribute is_finished the drain sets
    stored_data,       \* Scheduler.stored_data: dtype -> StoredData
    pending_tasks,     \* Scheduler.pending_tasks, a list of Task
    yielded,           \* what main_loop has yielded to its caller, in order
    emitted,           \* history: chunk numbers of the tasks each generator made
    pc,                \* "loop", "wait", "done" or "error"
    error,             \* the exception that left main_loop, or "none"
    recursion,         \* depth of the recursive restarts of _get_new_task
    rss_high,          \* the last reading of line 298: rss / 1e6 > threshold_mb
    hooks_called,      \* generators whose finish_on_exception was called
    cancelled,         \* whether the pending futures were cancelled
    pools_shutdown     \* whether both pools were shut down

vars == <<task_generators, parallel, input_delivery, has_final_task, submit_to,
          external_chunks,
          chunk_i, need_result_chunk, has_finished, is_finished, stored_data,
          pending_tasks, yielded, emitted, pc, error, recursion, rss_high,
          hooks_called, cancelled, pools_shutdown>>

config == <<task_generators, parallel, input_delivery, has_final_task, submit_to,
            external_chunks>>

gens == Range(task_generators)

\* The state after Scheduler(task_generators, max_workers): any subset of the
\* generators, each with its class attributes chosen by its implementer.
\* The second source comes in the pipelines of two parallel sources only,
\* submits to the thread pool and has no external input.  A source has no
\* external input or MaxExternal of them.  input_delivery is chosen for the
\* transform and left at its default 'direct' for the others.  Every
\* generator was constructed, so TaskGenerator.__init__ raised for none.
Init ==
    /\ \E gs \in SUBSET Generators :
          /\ "R" \in gs => gs = {"S", "R"}
          /\ task_generators = SortGenerators(gs)
          /\ parallel \in [Generators -> BOOLEAN]
          /\ \A tg \in Generators \ gs : ~parallel[tg]
          /\ "R" \in gs => parallel["R"] /\ parallel["S"]
          /\ input_delivery \in [Generators -> {"direct", "separate"}]
          /\ \A tg \in Generators :
                input_delivery[tg] # "direct" => tg \in gs /\ tg = "T"
          /\ \A tg \in gs :
                TaskGeneratorInit(parallel[tg], input_delivery[tg]) = "none"
          /\ has_final_task \in [Generators -> BOOLEAN]
          /\ \A tg \in Generators : has_final_task[tg] => tg \in gs /\ ~is_source(tg)
          /\ submit_to \in [Generators -> {"thread", "user"}]
          /\ \A tg \in Generators :
                submit_to[tg] = (IF tg = "K" THEN "user" ELSE "thread")
                \/ (tg \in gs /\ tg = "S")
          /\ external_chunks \in [Generators -> {0, MaxExternal}]
          /\ \A tg \in Generators :
                external_chunks[tg] # 0 => tg = "S" /\ gs \cap {"S", "R"} = {"S"}
          /\ stored_data = NewStoredData(gs)
    /\ chunk_i = [tg \in Generators |-> 0]
    /\ need_result_chunk = [tg \in Generators |-> -1]
    /\ has_finished = [tg \in Generators |-> FALSE]
    /\ is_finished = [tg \in Generators |-> FALSE]
    /\ pending_tasks = << >>
    /\ yielded = << >>
    /\ emitted = [tg \in Generators |-> << >>]
    /\ pc = "loop"
    /\ error = "none"
    /\ recursion = 0
    /\ rss_high = FALSE
    /\ hooks_called = {}
    /\ cancelled = FALSE
    /\ pools_shutdown = FALSE


\* ------------------------------------------------------------------ tasks
\* Task.__init__: a task and the state of its future ("running" until the
\* pool completes it).
Task(tg, ci, final) ==
    [generator |-> tg, chunk_i |-> ci, is_final |-> final, future |-> "running"]

\* The chunk counter left as it is: the task is numbered like the one before.
NextChunkStale(tg) == chunk_i[tg]

\* The chunk counter started anew for every task.
NextChunkReset(tg) == 1

\* chunk_i kept as one counter of the class, shared by every generator.
NextChunkShared(tg) ==
    chunk_i["S"] + chunk_i["R"] + chunk_i["T"] + chunk_i["K"] + 1

\* TaskGenerator.task, line 88: self.chunk_i += 1
NextChunk(tg) == chunk_i[tg] + 1

\* TaskGenerator.task(inputs) as Scheduler._get_new_task calls it for a source
\* (inputs = None), given the has_finished flags hf.  A generator that is not
\* parallel sets need_result_chunk and then calls self.deliver_inputs(**inputs):
\* the class defines no deliver_inputs, which is an AttributeError.
task(tg, hf) ==
    LET ci == NextChunk(tg) IN
    IF ~(ci > need_result_chunk[tg]) \/ hf[tg]
    THEN [raised |-> "AssertionError", chunk_i |-> ci,
          need_result_chunk |-> need_result_chunk[tg]]
    ELSE IF ~parallel[tg]
    THEN [raised |-> "AttributeError", chunk_i |-> ci, need_result_chunk |-> ci]
    ELSE [raised |-> "none", chunk_i |-> ci,
          need_result_chunk |-> need_result_chunk[tg],
          task |-> Task(tg, ci, FALSE)]

\* TaskGenerator.final_task: the flush task, made without inputs.  It is the
\* generator's next emitted task, so it takes the next chunk number.
final_task(tg) ==
    [raised |-> "none", chunk_i |-> chunk_i[tg] + 1,
     need_result_chunk |-> need_result_chunk[tg],
     task |-> Task(tg, chunk_i[tg] + 1, TRUE)]

\* TaskGenerator.external_inputs_exhausted, for a source with a fixed number
\* of external inputs.
external_inputs_exhausted(tg) == chunk_i[tg] >= external_chunks[tg]

\* ----------------------------------------------------------------- drain
\* The frontier moved to whatever chunk landed last.
PutResultLatest(sd, t) ==
    [dt \in DOMAIN sd |->
        IF dt \in Range(dtypes(t.generator)) /\ t.future = "result"
        THEN [sd[dt] EXCEPT
                !.stored = @ \cup {t.chunk_i},
                !.last_contiguous = t.chunk_i]
        ELSE sd[dt]]

\* Lines 242-246: every dtype of the result is stored under the task's chunk
\* number; last_contiguous moves up by one when it was chunk_i - 1.
PutResult(sd, t) ==
    [dt \in DOMAIN sd |->
        IF dt \in Range(dtypes(t.generator)) /\ t.future = "result"
        THEN [sd[dt] EXCEPT
                !.stored = @ \cup {t.chunk_i},
                !.last_contiguous =
                    IF @ = t.chunk_i - 1 THEN @ + 1 ELSE @]
        ELSE sd[dt]]

\* What a future may complete with: a result holding the generator's dtypes
\* or an exception; a final task may also return an empty result.
Outcomes(t) == {"result", "exception"} \cup (IF t.is_final THEN {"empty"} ELSE {})

RECURSIVE Receive(_, _, _, _)
\* Scheduler._receive_from_done_tasks from the i-th pending task on.  An
\* exception of a future stops the drain (exit_with_exception is called and
\* pending_tasks is not reassigned).
Receive(i, still_pending, sd, fin) ==
    IF i > Len(pending_tasks)
    THEN [raised |-> FALSE, pending_tasks |-> still_pending,
          stored_data |-> sd, is_finished |-> fin]
    ELSE LET t    == pending_tasks[i]
             fin2 == IF t.is_final THEN [fin EXCEPT ![t.generator] = TRUE]
                     ELSE fin
         IN IF t.future = "running"
            THEN Receive(i + 1, Append(still_pending, t), sd, fin)
            ELSE IF t.future = "exception"
            THEN [raised |-> TRUE, pending_tasks |-> pending_tasks,
                  stored_data |-> sd, is_finished |-> fin2]
            ELSE IF dtypes(t.generator) = << >>
            THEN Receive(i + 1, still_pending, sd, fin2)
            ELSE Receive(i + 1, still_pending, PutResult(sd, t), fin2)

Drained == Receive(1, << >>, stored_data, is_finished)

\* ------------------------------------------------------------- admission
\* Line 256: the dtypes of every generator, concatenated.
exhausted_inputs == UNION {Range(dtypes(tg)) : tg \in gens}

\* Lines 273-274.
InputsExhausted(tg) ==
    /\ ~is_source(tg) \/ external_inputs_exhausted(tg)
    /\ \A dt \in Range(dtypes(tg)) : dt \in exhausted_inputs

\* Lines 263-266: a generator that is not parallel waits for the result of
\* its previous task.  tg.dtypes[0] of a generator without dtypes is an
\* IndexError, raised before this is asked.
NeedsPreviousResult(tg, sd) ==
    ~parallel[tg] /\ sd[dtypes(tg)[1]].last_contiguous < need_result_chunk[tg]

RECURSIVE Walk(_, _, _, _, _, _)
\* The for loop of Scheduler._get_new_task (lines 259-294) from the i-th
\* generator on: hf are the has_finished flags so far, srcs the sources
\* collected, waits the generators waiting for an external condition, ready
\* what external_input_ready() returns for each generator.
Walk(i, hf, srcs, waits, ready, sd) ==
    IF i > Len(task_generators)
    THEN [kind |-> "none", has_finished |-> hf, sources |-> srcs,
          external_waits |-> waits]
    ELSE LET tg == task_generators[i] IN
         IF ~ready[tg]
         THEN Walk(i + 1, hf, srcs, waits \cup {tg}, ready, sd)
         ELSE IF ~parallel[tg] /\ dtypes(tg) = << >>
         THEN [kind |-> "raise", raised |-> "IndexError", has_finished |-> hf]
         ELSE IF NeedsPreviousResult(tg, sd)
         THEN Walk(i + 1, hf, srcs, waits, ready, sd)
         ELSE IF is_source(tg)
         THEN Walk(i + 1, hf, srcs \cup {tg}, waits, ready, sd)
         ELSE IF InputsExhausted(tg)
         THEN IF hf[tg]
              THEN Walk(i + 1, hf, srcs, waits, ready, sd)
              ELSE IF has_final_task[tg]
              THEN [kind |-> "final", generator |-> tg, has_finished |-> hf]
              ELSE Walk(i + 1, [hf EXCEPT ![tg] = TRUE], srcs, waits, ready, sd)
         \* Line 283: chunk_id not in self.stored_data[dtype], a membership
         \* test on a StoredData, which is no container.
         ELSE [kind |-> "raise", raised |-> "TypeError", has_finished |-> hf]

\* The memory reading ignored: sources are loaded whatever the memory use.
ThrottledNever(mem_high, pending) == FALSE

\* Lines 298-299: with the resident memory above the threshold and tasks
\* pending, no source is loaded.
Throttled(mem_high, pending) == mem_high /\ pending # << >>

\* The generators the jittered max of lines 304-311 may select.
Sources == {tg \in Generators : is_source(tg)}

\* What external_input_ready() may return: the default is True, and the
\* source S overrides it.
ReadyChoices == {r \in [Generators -> BOOLEAN] : \A tg \in Generators : tg # "S" => r[tg]}

\* Scheduler._get_new_task after the drain d: ready, mem_high (whether
\* rss / 1e6 > threshold_mb) and pick (the source the jittered max selects)
\* are its inputs; rss_high is mem_high when line 298 was reached and the
\* last reading otherwise.  kind is "task", "raise", "none" or "sleep" (the restart of
\* lines 319-322); "skip" marks a pick that is not among the collected sources,
\* which the max of line 310 cannot return.
GetNewTask(d, ready, mem_high, pick) ==
    LET w    == Walk(1, has_finished, {}, {}, ready, d.stored_data)
        made(tg, r) ==
            [kind |-> IF r.raised = "none" THEN "task" ELSE "raise",
             raised |-> r.raised,
             task |-> IF r.raised = "none" THEN r.task ELSE Task(tg, r.chunk_i, FALSE),
             has_finished |-> w.has_finished, rss_high |-> mem_high,
             chunk_i |-> [chunk_i EXCEPT ![tg] = r.chunk_i],
             need_result_chunk |-> [need_result_chunk EXCEPT ![tg] = r.need_result_chunk]]
        none(k, read) ==
            [kind |-> k, raised |-> "none", has_finished |-> w.has_finished,
             rss_high |-> read,
             chunk_i |-> chunk_i, need_result_chunk |-> need_result_chunk]
    IN IF w.kind = "raise"
       THEN [kind |-> "raise", raised |-> w.raised, has_finished |-> w.has_finished,
             rss_high |-> rss_high,
             chunk_i |-> chunk_i, need_result_chunk |-> need_result_chunk]
       ELSE IF w.kind = "final"
       THEN [made(w.generator, final_task(w.generator)) EXCEPT !.rss_high = rss_high]
       ELSE IF w.sources # {}
       THEN IF Throttled(mem_high, d.pending_tasks)
            THEN none("none", mem_high)
            ELSE IF pick \in w.sources
            THEN made(pick, task(pick, w.has_finished))
            ELSE none("skip", mem_high)
       ELSE IF w.external_waits # {}
       THEN IF d.pending_tasks # << >> THEN none("none", rss_high)
            ELSE none("sleep", rss_high)
       ELSE none("none", rss_high)

\* ------------------------------------------------------------- shutdown
\* TaskGenerator defines has_finished, and the drain sets is_finished; no
\* code defines the attribute finished that exit_with_exception reads.
HasAttrFinished(tg) == FALSE

\* Scheduler.exit_with_exception(exception): what it raises ("none" when it
\* returns), the hooks it called, and whether it reached the cancellation of
\* the pending futures and the shutdown of the pools.  The raise of line 348
\* is inside the loop over the generators.
exit_with_exception(exception) ==
    IF task_generators = << >>
    THEN [raised |-> "none", hooks |-> {}, cancelled |-> TRUE, shutdown |-> TRUE]
    ELSE LET tg == task_generators[1] IN
         IF ~HasAttrFinished(tg)
         THEN [raised |-> "AttributeError", hooks |-> {},
               cancelled |-> FALSE, shutdown |-> FALSE]
         ELSE [raised |-> exception, hooks |-> {tg},
               cancelled |-> FALSE, shutdown |-> FALSE]

\* Scheduler.all_exhausted: every generator has finished and every chunk of
\* every store has been seen by all of the store's consumers.
all_exhausted(hf, sd) ==
    /\ \A tg \in gens : hf[tg]
    /\ \A dt \in DOMAIN sd : \A c \in sd[dt].stored :
          \A tg \in DOMAIN sd[dt].seen_by_consumers :
              sd[dt].seen_by_consumers[tg] >= c


\* Scheduler._submit_task: the task goes to its pool and is appended to the
\* pending tasks.
submit_task(pending, t) == Append(pending, t)

\* main_loop asking for another task whatever the number pending.
AfterTaskContinue(pending) == "loop"

\* Line 205: after a task was submitted or yielded, main_loop looks for
\* another one while fewer than max_workers tasks are pending, and waits
\* otherwise.
AfterTask(pending) == IF Len(pending) < max_workers THEN "loop" ELSE "wait"

\* Line 202: the yield of a task made for the user.
Yield(t) == [generator |-> t.generator, chunk_i |-> t.chunk_i, is_final |-> t.is_final]

\* ---------------------------------------------------------------- actions
\* A pool completes the future of a pending task.  Only completions the
\* running driver can observe are modelled.
FutureCompletes ==
    /\ pc \in {"loop", "wait"}
    /\ \E i \in 1..Len(pending_tasks) :
          /\ pending_tasks[i].future = "running"
          /\ \E o \in Outcomes(pending_tasks[i]) :
                pending_tasks' = [pending_tasks EXCEPT ![i].future = o]
    /\ UNCHANGED <<config, chunk_i, need_result_chunk, has_finished, is_finished,
                   stored_data, yielded, emitted, pc, error, recursion, rss_high,
                   hooks_called, cancelled, pools_shutdown>>

\* main_loop, lines 188 and 236-239: the drain meets a future that ended in
\* an exception and calls exit_with_exception.  Were exit_with_exception to
\* return, f.result() of line 242 would raise the task's exception.
ReceiveRaises ==
    /\ pc = "loop"
    /\ Drained.raised
    /\ LET x == exit_with_exception("TaskError") IN
          /\ error' = IF x.raised = "none" THEN "TaskError" ELSE x.raised
          /\ hooks_called' = x.hooks
          /\ cancelled' = x.cancelled
          /\ pools_shutdown' = x.shutdown
    /\ pc' = "error"
    /\ stored_data' = Drained.stored_data
    /\ is_finished' = Drained.is_finished
    /\ UNCHANGED <<config, chunk_i, need_result_chunk, has_finished,
                   pending_tasks, yielded, emitted, recursion, rss_high>>

\* The part of one iteration of main_loop that every outcome of the admission
\* shares: the drain's effects and the bookkeeping of _get_new_task.
Admitted(a) ==
    /\ stored_data' = Drained.stored_data
    /\ is_finished' = Drained.is_finished
    /\ has_finished' = a.has_finished
    /\ chunk_i' = a.chunk_i
    /\ need_result_chunk' = a.need_result_chunk
    /\ rss_high' = a.rss_high

\* main_loop, lines 188-189 and 203-206: a task for a pool is admitted and
\* submitted.
SubmitTask ==
    /\ pc = "loop"
    /\ ~Drained.raised
    /\ \E ready \in ReadyChoices, mem_high \in BOOLEAN, pick \in Sources :
          LET a == GetNewTask(Drained, ready, mem_high, pick) IN
          /\ a.kind = "task"
          /\ submit_to[a.task.generator] # "user"
          /\ Len(emitted[a.task.generator]) < MaxChunk
          /\ Admitted(a)
          /\ pending_tasks' = submit_task(Drained.pending_tasks, a.task)
          /\ emitted' = [emitted EXCEPT ![a.task.generator] = Append(@, a.task.chunk_i)]
          /\ pc' = AfterTask(pending_tasks')
    /\ recursion' = 0
    /\ UNCHANGED <<config, yielded, error, hooks_called, cancelled, pools_shutdown>>

\* main_loop, lines 188-189, 201-202 and 205-206: a task made for the user is
\* admitted and its content yielded.
YieldTask ==
    /\ pc = "loop"
    /\ ~Drained.raised
    /\ \E ready \in ReadyChoices, mem_high \in BOOLEAN, pick \in Sources :
          LET a == GetNewTask(Drained, ready, mem_high, pick) IN
          /\ a.kind = "task"
          /\ submit_to[a.task.generator] = "user"
          /\ Len(emitted[a.task.generator]) < MaxChunk
          /\ Admitted(a)
          /\ yielded' = Append(yielded, Yield(a.task))
          /\ emitted' = [emitted EXCEPT ![a.task.generator] = Append(@, a.task.chunk_i)]
    /\ pending_tasks' = Drained.pending_tasks
    /\ pc' = AfterTask(pending_tasks')
    /\ recursion' = 0
    /\ UNCHANGED <<config, error, hooks_called, cancelled, pools_shutdown>>

\* main_loop, line 189: _get_new_task raises, and the exception leaves
\* main_loop.
AdmissionRaises ==
    /\ pc = "loop"
    /\ ~Drained.raised
    /\ \E ready \in ReadyChoices, mem_high \in BOOLEAN, pick \in Sources :
          LET a == GetNewTask(Drained, ready, mem_high, pick) IN
          /\ a.kind = "raise"
          /\ Admitted(a)
          /\ error' = a.raised
    /\ pending_tasks' = Drained.pending_tasks
    /\ pc' = "error"
    /\ UNCHANGED <<config, yielded, emitted, recursion, hooks_called, cancelled,
                   pools_shutdown>>

\* The loop ended as soon as no task can be started.
MayFinishAnyway(pending, hf, sd) == TRUE

\* main_loop, lines 193-195: with no task to start, the loop ends when
\* nothing is pending and all data is exhausted.
MayFinish(pending, hf, sd) == pending = << >> /\ all_exhausted(hf, sd)

\* main_loop, lines 190-195 and 208-209: no task, nothing pending and all
\* data exhausted: the loop ends and both pools are shut down.
Finish ==
    /\ pc = "loop"
    /\ ~Drained.raised
    /\ \E ready \in ReadyChoices, mem_high \in BOOLEAN, pick \in Sources :
          LET a == GetNewTask(Drained, ready, mem_high, pick) IN
          /\ a.kind = "none"
          /\ MayFinish(Drained.pending_tasks, a.has_finished, Drained.stored_data)
          /\ Admitted(a)
    /\ pending_tasks' = Drained.pending_tasks
    /\ pc' = "done"
    /\ pools_shutdown' = TRUE
    /\ recursion' = 0
    /\ UNCHANGED <<config, yielded, emitted, error, hooks_called, cancelled>>

\* main_loop, lines 190-199 and 207: no task and the loop does not end.  With
\* tasks pending main_loop waits for one of them.  With nothing pending it
\* calls exit_with_exception, and were that to return, it would wait for a
\* task that does not exist.
NoTask ==
    /\ pc = "loop"
    /\ ~Drained.raised
    /\ \E ready \in ReadyChoices, mem_high \in BOOLEAN, pick \in Sources :
          LET a == GetNewTask(Drained, ready, mem_high, pick)
              x == exit_with_exception("RuntimeError")
          IN
          /\ a.kind = "none"
          /\ ~MayFinish(Drained.pending_tasks, a.has_finished, Drained.stored_data)
          /\ Admitted(a)
          /\ IF Drained.pending_tasks # << >>
             THEN /\ pc' = "wait"
                  /\ UNCHANGED <<error, hooks_called, cancelled, pools_shutdown>>
             ELSE /\ pc' = IF x.raised = "none" THEN "wait" ELSE "error"
                  /\ error' = x.raised
                  /\ hooks_called' = x.hooks
                  /\ cancelled' = x.cancelled
                  /\ pools_shutdown' = x.shutdown
    /\ pending_tasks' = Drained.pending_tasks
    /\ recursion' = 0
    /\ UNCHANGED <<config, yielded, emitted>>

\* _get_new_task, lines 313-322: only external conditions are left to wait
\* for and nothing is pending: sleep, then call _get_new_task again from
\* inside itself; the stack overflows at the recursion limit.
ExternalWait ==
    /\ pc = "loop"
    /\ ~Drained.raised
    /\ \E ready \in ReadyChoices, mem_high \in BOOLEAN, pick \in Sources :
          LET a == GetNewTask(Drained, ready, mem_high, pick) IN
          /\ a.kind = "sleep"
          /\ Admitted(a)
    /\ pending_tasks' = Drained.pending_tasks
    /\ IF recursion < RecursionLimit
       THEN recursion' = recursion + 1 /\ UNCHANGED <<pc, error>>
       ELSE pc' = "error" /\ error' = "RecursionError" /\ UNCHANGED recursion
    /\ UNCHANGED <<config, yielded, emitted, hooks_called, cancelled, pools_shutdown>>

\* Scheduler.wait_until_task_done: returns once a pending future is done.
WaitUntilTaskDone ==
    /\ pc = "wait"
    /\ \E i \in 1..Len(pending_tasks) : pending_tasks[i].future # "running"
    /\ pc' = "loop"
    /\ UNCHANGED <<config, chunk_i, need_result_chunk, has_finished, is_finished,
                   stored_data, pending_tasks, yielded, emitted, error, recursion,
                   rss_high, hooks_called, cancelled, pools_shutdown>>

Next ==
    \/ FutureCompletes
    \/ ReceiveRaises
    \/ SubmitTask
    \/ YieldTask
    \/ AdmissionRaises
    \/ Finish
    \/ NoTask
    \/ ExternalWait
    \/ WaitUntilTaskDone

Spec == Init /\ [][Next]_vars


\* ------------------------------------------------------------ properties
\* The tasks of generator tg among the pending tasks.
PendingOf(tg) == {i \in 1..Len(pending_tasks) : pending_tasks[i].generator = tg}

\* The driver stopped on the exception of a pending task: the drain found the
\* future, which stays in pending_tasks.
StoppedOnTaskError ==
    pc = "error" /\ \E i \in 1..Len(pending_tasks) : pending_tasks[i].future = "exception"

\* Lines 282-294 of _get_new_task, which hand the stored chunks to a consumer,
\* mark them seen and clean the cache, are never reached: no consumer frontier
\* ever moves and the membership test of line 283 never raises.
DeliveryNeverReached ==
    /\ error # "TypeError"
    /\ \A dt \in DOMAIN stored_data :
          \A tg \in DOMAIN stored_data[dt].seen_by_consumers :
              stored_data[dt].seen_by_consumers[tg] = -1

\* C2: a generator that is not parallel has at most one of its tasks among
\* the pending tasks, in every reachable state.
C2_NonParallelOneInFlight ==
    \A tg \in gens : ~parallel[tg] => Cardinality(PendingOf(tg)) <= 1

\* C3: when the driver stops on the error of a pending task, every pending
\* future was cancelled, the exception hook was called on every generator
\* that is not finished, both pools were shut down, and the error the caller
\* sees is the task's.
C3_CleanupBeforeTaskError ==
    StoppedOnTaskError =>
        /\ cancelled
        /\ \A tg \in gens : ~has_finished[tg] /\ ~is_finished[tg] => tg \in hooks_called
        /\ pools_shutdown
        /\ error = "TaskError"

C6_YieldsIncrease ==
    \A i, j \in 1..Len(yielded) :
        i < j /\ yielded[i].generator = yielded[j].generator
            => yielded[i].chunk_i < yielded[j].chunk_i

\* Two chunks made by TaskGenerator.task were yielded for one generator.
C6_Witness ==
    \E i, j \in 1..Len(yielded) :
        /\ i < j
        /\ yielded[i].generator = yielded[j].generator
        /\ ~yielded[i].is_final /\ ~yielded[j].is_final

\* C7: the tasks the generator of a produced datatype emits are numbered
\* 0, 1, 2, ... in that order.
C7_ChunksNumberedFromZero ==
    \A tg \in gens : dtypes(tg) # << >> =>
        \A k \in 1..Len(emitted[tg]) : emitted[tg][k] = k - 1

\* C8: no generator emits a task, ordinary or final, whose chunk number is
\* less than or equal to that of a task it emitted before.
C8_NoChunkNumberAgain ==
    \A tg \in Generators : \A i, j \in 1..Len(emitted[tg]) :
        i < j => emitted[tg][i] < emitted[tg][j]

\* A source has emitted three tasks.
C8_Witness == Len(emitted["S"]) >= 3

\* The chunk numbers yielded for generator tg, in the order of the yields.
RECURSIVE YieldedFor(_, _)
YieldedFor(tg, n) ==
    IF n = 0 THEN << >>
    ELSE IF yielded[n].generator = tg
         THEN Append(YieldedFor(tg, n - 1), yielded[n].chunk_i)
         ELSE YieldedFor(tg, n - 1)

\* The pipeline source -> transform -> sink with parallel generators, tasks of
\* the source and the transform run in a pool, no final tasks.
LinearPipeline ==
    /\ gens = {"S", "T", "K"}
    /\ \A tg \in gens : parallel[tg] /\ ~has_final_task[tg]
    /\ submit_to["S"] = "thread"

\* C9: in the pipeline source -> identity transform -> sink, once the sink
\* has finished the stream yielded for it is the source's chunks, each once,
\* in the source's order (the payload of chunk n is passed through unchanged,
\* so the streams are compared by chunk number).
C9_IdentityPipelineStream ==
    LinearPipeline /\ has_finished["K"] =>
        YieldedFor("K", Len(yielded)) = emitted["S"]

\* C10: in a pipeline whose source reports external_inputs_exhausted() from
\* its first call on, no source task is admitted, nothing is yielded and no
\* error is raised (stated for generators that are all parallel).
C10_ExhaustedSourceNotAdmitted ==
    /\ "S" \in gens
    /\ external_chunks["S"] = 0
    /\ \A tg \in gens : parallel[tg] /\ ~has_final_task[tg]
    => /\ emitted["S"] = << >>
       /\ yielded = << >>
       /\ error = "none"


\* C11: when the memory reading is above the threshold and tasks are pending
\* after the drain, the admission of that iteration makes no source task.
\* With a threshold of 0 every reading is above it, so a source task is
\* admitted only with nothing pending.
C11_ThrottledNoSourceTask ==
    [][rss_high' /\ pc = "loop" /\ ~Drained.raised /\ Drained.pending_tasks # << >>
        => \A tg \in Generators : is_source(tg) => emitted'[tg] = emitted[tg]]_vars

\* The admission read a memory use above the threshold with a task pending
\* and returned no task: main_loop waits.
C11_Witness ==
    /\ rss_high
    /\ pc = "wait"
    /\ Len(pending_tasks) = 1
    /\ \E tg \in gens : is_source(tg) /\ parallel[tg]


\* The generator whose tasks main_loop yields: the sink when it has a final
\* task (line 277 returns it before any source is looked at), else the source
\* that submits to the user.
Yielder == IF "K" \in gens /\ has_final_task["K"] THEN "K" ELSE "S"

C13_ParallelStagedRejected ==
    \A tg \in gens : ~(parallel[tg] /\ input_delivery[tg] = "separate")


\* Every task made for a non-source generator is a final task: the branch of
\* lines 282-294, which builds the ordinary ones, is never reached.
OnlyFinalTasksForNonSources ==
    \A tg \in Generators : ~is_source(tg) =>
        /\ emitted[tg] # << >> => has_final_task[tg]
        /\ \A i \in PendingOf(tg) : pending_tasks[i].is_final
        /\ \A i \in 1..Len(yielded) : yielded[i].generator = tg => yielded[i].is_final


\* The data types a generator declares as inputs: those of its wants_input.
input_dtypes(tg) == {w[1] : w \in Range(wants_input(tg))}

\* The producer p has no more to give: a source has declared its external
\* inputs exhausted, another generator has finished.
ProducerExhausted(p) ==
    IF is_source(p) THEN external_inputs_exhausted(p) ELSE has_finished[p]

\* The consumer tg has been handed chunk k of the data type dt.
Consumed(tg, dt, k) ==
    /\ tg \in DOMAIN stored_data[dt].seen_by_consumers
    /\ stored_data[dt].seen_by_consumers[tg] >= k

\* C15: a non-source generator has been marked finished, or has been given a
\* final task, only if every producer of its input data types has no more to
\* give and every chunk they made has been handed to it.
C15_FinishedOnlyWhenInputsExhausted ==
    \A tg \in gens : ~is_source(tg) /\ (has_finished[tg] \/ emitted[tg] # << >>) =>
        \A p \in gens : \A i \in 1..Len(dtypes(p)) :
            dtypes(p)[i] \in input_dtypes(tg) =>
                /\ ProducerExhausted(p)
                /\ \A k \in Range(emitted[p]) : Consumed(tg, dtypes(p)[i], k)


\* The greatest k such that chunks 0..k are all in the set, -1 without chunk 0.
GreatestContiguous(chunks) ==
    IF 0 \notin chunks THEN -1
    ELSE CHOOSE k \in chunks : (\A j \in 0..k : j \in chunks) /\ k + 1 \notin chunks

FrontierNeverMoves ==
    \A dt \in DOMAIN stored_data : stored_data[dt].last_contiguous = -1


\* C17: a generator with a final task is given it at most once in a run (the
\* only tasks such a generator is given are final tasks).
C17_FinalTaskOnce ==
    \A tg \in Generators : has_final_task[tg] => Len(emitted[tg]) <= 1


\* The state Scheduler.__init__ leaves: main_loop has not run an iteration.
JustConstructed ==
    /\ pc = "loop" /\ recursion = 0 /\ pending_tasks = << >>
    /\ \A tg \in Generators : emitted[tg] = << >> /\ ~has_finished[tg]

\* C18: after construction a generator is registered in the seen frontier of
\* a produced data type, with the value -1, exactly when the data type is one
\* of its declared inputs.
C18_ConsumersRegistered ==
    JustConstructed =>
        \A dt \in DOMAIN stored_data : \A tg \in gens :
            LET seen == stored_data[dt].seen_by_consumers IN
            /\ tg \in DOMAIN seen <=> dt \in input_dtypes(tg)
            /\ tg \in DOMAIN seen => seen[tg] = -1


\* main_loop is about to get no task from an admission with nothing pending
\* and not everything exhausted: the case of lines 194-198.
NoTaskNothingPendingNotExhausted ==
    /\ pc = "loop"
    /\ ~Drained.raised
    /\ Drained.pending_tasks = << >>
    /\ \E ready \in ReadyChoices, mem_high \in BOOLEAN, pick \in Sources :
          LET a == GetNewTask(Drained, ready, mem_high, pick) IN
          /\ a.kind = "none"
          /\ ~all_exhausted(a.has_finished, Drained.stored_data)

\* No run gets there.
DeadlockNeverMet == ~NoTaskNothingPendingNotExhausted


\* C20: pending_tasks never holds more than max_workers tasks, and never a
\* task of a generator that submits to the user (those are yielded).
C20_PendingAtMostMaxWorkers ==
    /\ Len(pending_tasks) <= max_workers
    /\ \A i \in 1..Len(pending_tasks) : submit_to[pending_tasks[i].generator] # "user"

\* The pool is full and main_loop waits, after a task was yielded too.
C20_Witness ==
    /\ Len(pending_tasks) = max_workers
    /\ pc = "wait"
    /\ \E tg \in gens : submit_to[tg] = "user" /\ emitted[tg] # << >>

====
